---- MODULE Spec2Model ----
(***************************************************************************)
(* Model of image_recognition_commandr.py: the Extractor                   *)
(* (describe_image_with_model), the Selector                               *)
(* (select_best_output_with_command_r) and the module-level driver loop.   *)
(*                                                                         *)
(* A Python str is a sequence of text pieces (a literal of the source is   *)
(* one piece, a formatted number is one piece per digit); a Python value   *)
(* is a record [type, s] so that None is not a str.  The provider is the   *)
(* environment: requests.post either raises a RequestException or yields   *)
(* an HTTP response; the file system is the environment too.               *)
(***************************************************************************)
EXTENDS Integers, Sequences, FiniteSets, TLC

\* Longest candidate sequence the direct calls of the Selector are given.
MaxCandidates == 2

\* ------------------------------------------------------------------- state

VARIABLES
    disk,       \* the file system: path -> [exists, bytes]
    json_error_is_request_exception,
                \* the installed requests: whether the error response.json()
                \* raises on a body that is no JSON is a RequestException
                \* (requests >= 2.27) or a plain ValueError (older)
    pc,         \* where the caller is
    frame,      \* the invocation in progress, or the last one
    prev,       \* direct calls: the invocation that ended right before the
                \* one in frame began, when both are describe_image_with_model
    model_index,          \* driver: position of the for loop in models (1-based)
    outputs,    \* driver: the list outputs
    best_output,\* driver: the variable best_output
    trace       \* driver: the invocations made so far, in order

vars == <<disk, json_error_is_request_exception, pc, frame, prev, model_index, outputs,
          best_output, trace>>

\* ------------------------------------------------------------ Python values

Str(s) == [type |-> "str", s |-> s]

None == [type |-> "NoneType", s |-> <<>>]

\* str(v) as an f-string field renders it: a str as itself, None as "None".
format_value(v) == IF v.type = "NoneType" THEN <<"None">> ELSE v.s

Digit(d) == <<"0", "1", "2", "3", "4", "5", "6", "7", "8", "9">>[d + 1]

RECURSIVE format_int(_)
\* The decimal digits of a non-negative int, as an f-string field renders it.
format_int(n) == IF n < 10 THEN <<Digit(n)>>
                 ELSE format_int(n \div 10) \o <<Digit(n % 10)>>

\* t occurs in s at position p (1-based), contiguously.
OccursAt(s, t, p) ==
    /\ p >= 1
    /\ p + Len(t) - 1 <= Len(s)
    /\ \A k \in 1..Len(t) : s[p + k - 1] = t[k]

\* Python's "t in s" for strings.
Contains(s, t) == \E p \in 1..(Len(s) + 1) : OccursAt(s, t, p)

\* The least position >= p at which t occurs in s, 0 when there is none.
FindFrom(s, t, p) ==
    LET hits == {q \in p..(Len(s) + 1) : OccursAt(s, t, q)}
    IN  IF hits = {} THEN 0 ELSE CHOOSE q \in hits : \A r \in hits : q <= r

\* ------------------------------------------------------------------ base64

B64Alphabet ==
    << "A","B","C","D","E","F","G","H","I","J","K","L","M","N","O","P",
       "Q","R","S","T","U","V","W","X","Y","Z","a","b","c","d","e","f",
       "g","h","i","j","k","l","m","n","o","p","q","r","s","t","u","v",
       "w","x","y","z","0","1","2","3","4","5","6","7","8","9","+","/" >>

B64Char(v) == B64Alphabet[v + 1]

RECURSIVE b64encode(_)
\* base64.b64encode(bytes).decode('utf-8'): three bytes to four characters,
\* the last group padded with "=".
b64encode(b) ==
    IF Len(b) = 0 THEN <<>>
    ELSE IF Len(b) = 1 THEN
        << B64Char(b[1] \div 4), B64Char((b[1] % 4) * 16), "=", "=" >>
    ELSE IF Len(b) = 2 THEN
        << B64Char(b[1] \div 4), B64Char((b[1] % 4) * 16 + b[2] \div 16),
           B64Char((b[2] % 16) * 4), "=" >>
    ELSE
        << B64Char(b[1] \div 4), B64Char((b[1] % 4) * 16 + b[2] \div 16),
           B64Char((b[2] % 16) * 4 + b[3] \div 64), B64Char(b[3] % 64) >>
        \o b64encode(SubSeq(b, 4, Len(b)))

\* ----------------------------------------------------------- the requests

OPENROUTER_API_KEY == "Your-API"

API_URL == "https://openrouter.ai/api/v1/chat/completions"

TIMEOUT == 60

HTTP_OK == 200

JUDGE_MODEL == "cohere/command-r"

headers ==
    [Authorization |-> <<"Bearer ", OPENROUTER_API_KEY>>,
     ContentType   |-> "application/json"]

\* The data URL of the image read from disk.
image_content(bytes) == <<"data:image/jpeg;base64,">> \o b64encode(bytes)

\* Mutant: the messages list is shared between calls and grows.
describe_payload_shared_messages(model_name, instr, url) ==
    LET turn == [role    |-> "user",
                 content |-> << [type |-> "text", text |-> instr],
                                [type |-> "image_url",
                                 image_url |-> [url |-> url]] >>]
    IN  [model    |-> model_name,
         messages |-> IF frame.fn = "describe" /\ Len(frame.posts) > 0
                      THEN Append(frame.posts[1].data.json.messages, turn)
                      ELSE <<turn>>]

\* The Extractor's payload.
describe_payload(model_name, instr, url) ==
    [model    |-> model_name,
     messages |-> << [role    |-> "user",
                      content |-> << [type |-> "text", text |-> instr],
                                     [type |-> "image_url",
                                      image_url |-> [url |-> url]] >>] >>]

\* json.dumps(payload): the request body is the document itself, serialised.
json_dumps(payload) == [json |-> payload]

\* The arguments of one requests.post call.
post_request(payload) ==
    [url     |-> API_URL,
     headers |-> headers,
     data    |-> json_dumps(payload),
     timeout |-> TIMEOUT]

\* ---------------------------------------------------- the judge instruction

\* Mutant: the label is the 0-based index.
option_entry_zero_based(i, output) ==
    <<"Option ">> \o format_int(i) \o <<":\n">> \o format_value(output)

\* f"Option {i+1}:\n{output}" for the pair (i, output) of enumerate(outputs).
option_entry(i, output) ==
    <<"Option ">> \o format_int(i + 1) \o <<":\n">> \o format_value(output)

RECURSIVE join(_, _)
\* sep.join(parts)
join(sep, parts) ==
    IF Len(parts) = 0 THEN <<>>
    ELSE IF Len(parts) = 1 THEN parts[1]
    ELSE parts[1] \o sep \o join(sep, Tail(parts))

formatted_outputs(outs) ==
    join(<<"\n\n">>, [k \in 1..Len(outs) |-> option_entry(k - 1, outs[k])])

\* The fixed text of the judge instruction before the embedded options.
JUDGE_PROMPT_HEAD ==
    "You are a decision engine called Command-R. ... ### **LaTeX Tables to Analyze**\n"

JUDGE_PROMPT_TAIL == "\n\n    "

judge_instruction(outs) ==
    <<JUDGE_PROMPT_HEAD>> \o formatted_outputs(outs) \o <<JUDGE_PROMPT_TAIL>>

\* The Selector's payload.
select_payload(outs) ==
    [model    |-> JUDGE_MODEL,
     messages |-> << [role |-> "user", content |-> judge_instruction(outs)] >>]

\* ------------------------------------------------------------ the provider

\* What one requests.post call can end in: a RequestException with message
\* msg, or an HTTP response with a status code and a body.  The body is kept
\* as its text and as what response.json() makes of it (parses = FALSE: the
\* text is no JSON document).
Exception(msg) ==
    [kind |-> "exception", msg |-> msg, status_code |-> 0, text |-> <<>>,
     parses |-> FALSE, doc |-> [none |-> TRUE]]

Http(status_code, text, parses, doc) ==
    [kind |-> "http", msg |-> <<>>, status_code |-> status_code, text |-> text,
     parses |-> parses, doc |-> doc]

NoResponse ==
    [kind |-> "none", msg |-> <<>>, status_code |-> 0, text |-> <<>>,
     parses |-> FALSE, doc |-> [none |-> TRUE]]

Choice(content) == [message |-> [role |-> "assistant", content |-> content]]

TableA == <<"<table A>">>

TableB == <<"<table B>">>

Exceptions ==
    { Exception(<<"HTTPSConnectionPool: Read timed out. (read timeout=60)">>),
      Exception(<<"HTTPSConnectionPool: Max retries exceeded (Name or service not known)">>) }

FailureStatuses == {201, 500}

FailureBodies == { <<>>, <<"error">> }

FailureResponses ==
    { Http(c, b, FALSE, [none |-> TRUE]) : c \in FailureStatuses, b \in FailureBodies }

\* Success-status responses whose body has a first choice with a message text.
WellFormedResponses ==
    { Http(HTTP_OK, <<"{choices: [A]}">>, TRUE, [choices |-> <<Choice(Str(TableA))>>]),
      Http(HTTP_OK, <<"{choices: [B]}">>, TRUE, [choices |-> <<Choice(Str(TableB))>>]),
      Http(HTTP_OK, <<"{choices: [B, A]}">>, TRUE,
           [choices |-> <<Choice(Str(TableB)), Choice(Str(TableA))>>]),
      Http(HTTP_OK, <<"{choices: ['']}">>, TRUE, [choices |-> <<Choice(Str(<<>>))>>]) }

\* Success-status responses whose body is not of that shape.
MalformedResponses ==
    { Http(HTTP_OK, <<"{choices: []}">>, TRUE, [choices |-> <<>>]),
      Http(HTTP_OK, <<"{error: {code: 429}}">>, TRUE, [error |-> [code |-> 429]]),
      Http(HTTP_OK, <<"{choices: [{finish_reason: error}]}">>, TRUE,
           [choices |-> <<[finish_reason |-> "error"]>>]),
      Http(HTTP_OK, <<"{choices: [null]}">>, TRUE, [choices |-> <<Choice(None)>>]),
      Http(HTTP_OK, <<"<html>Bad Gateway</html>">>, FALSE, [none |-> TRUE]) }

Responses ==
    Exceptions \cup FailureResponses \cup WellFormedResponses \cup MalformedResponses

\* ------------------------------------------------- how an invocation ends

Return(v) == [kind |-> "return", value |-> v, exc |-> ""]

Raise(e) == [kind |-> "raise", value |-> None, exc |-> e]

\* str(e) of the error response.json() raises on a body that is no JSON.
JSON_ERROR_TEXT == <<"Expecting value: line 1 column 1 (char 0)">>

\* Mutant: the last choice is returned instead of the first.
describe_response_last_choice(resp) ==
    IF resp.kind = "exception" THEN
        Return(Str(<<"Request failed due to an exception: ">> \o resp.msg))
    ELSE IF resp.status_code = HTTP_OK THEN
        IF ~resp.parses THEN
            IF json_error_is_request_exception
            THEN Return(Str(<<"Request failed due to an exception: ">> \o JSON_ERROR_TEXT))
            ELSE Raise("JSONDecodeError")
        ELSE IF "choices" \notin DOMAIN resp.doc THEN Raise("KeyError")
        ELSE IF Len(resp.doc.choices) = 0 THEN Raise("IndexError")
        ELSE IF "message" \notin DOMAIN resp.doc.choices[Len(resp.doc.choices)]
             THEN Raise("KeyError")
        ELSE IF "content" \notin DOMAIN resp.doc.choices[Len(resp.doc.choices)].message
             THEN Raise("KeyError")
        ELSE Return(resp.doc.choices[Len(resp.doc.choices)].message.content)
    ELSE
        Return(Str(<<"Request failed with status code ">>
                   \o format_int(resp.status_code) \o <<": ">> \o resp.text))

\* Mutant: a non-success status is raised (response.raise_for_status())
\* instead of being returned as text.
describe_response_raise_for_status(resp) ==
    IF resp.kind = "exception" THEN
        Return(Str(<<"Request failed due to an exception: ">> \o resp.msg))
    ELSE IF resp.status_code = HTTP_OK THEN
        IF ~resp.parses THEN
            IF json_error_is_request_exception
            THEN Return(Str(<<"Request failed due to an exception: ">> \o JSON_ERROR_TEXT))
            ELSE Raise("JSONDecodeError")
        ELSE IF "choices" \notin DOMAIN resp.doc THEN Raise("KeyError")
        ELSE IF Len(resp.doc.choices) = 0 THEN Raise("IndexError")
        ELSE IF "message" \notin DOMAIN resp.doc.choices[1] THEN Raise("KeyError")
        ELSE IF "content" \notin DOMAIN resp.doc.choices[1].message THEN Raise("KeyError")
        ELSE Return(resp.doc.choices[1].message.content)
    ELSE
        Raise("HTTPError")

\* The try block of describe_image_with_model once requests.post has ended
\* in resp: what the call returns or raises.
describe_response(resp) ==
    IF resp.kind = "exception" THEN
        Return(Str(<<"Request failed due to an exception: ">> \o resp.msg))
    ELSE IF resp.status_code = HTTP_OK THEN
        IF ~resp.parses THEN
            IF json_error_is_request_exception
            THEN Return(Str(<<"Request failed due to an exception: ">> \o JSON_ERROR_TEXT))
            ELSE Raise("JSONDecodeError")
        ELSE IF "choices" \notin DOMAIN resp.doc THEN Raise("KeyError")
        ELSE IF Len(resp.doc.choices) = 0 THEN Raise("IndexError")
        ELSE IF "message" \notin DOMAIN resp.doc.choices[1] THEN Raise("KeyError")
        ELSE IF "content" \notin DOMAIN resp.doc.choices[1].message THEN Raise("KeyError")
        ELSE Return(resp.doc.choices[1].message.content)
    ELSE
        Return(Str(<<"Request failed with status code ">>
                   \o format_int(resp.status_code) \o <<": ">> \o resp.text))

\* Mutant: the failure text names the status code and leaves the body out.
select_response_no_body(resp) ==
    IF resp.kind = "exception" THEN
        Return(Str(<<"Request failed due to an exception: ">> \o resp.msg))
    ELSE IF resp.status_code = HTTP_OK THEN
        IF ~resp.parses THEN
            IF json_error_is_request_exception
            THEN Return(Str(<<"Request failed due to an exception: ">> \o JSON_ERROR_TEXT))
            ELSE Raise("JSONDecodeError")
        ELSE IF "choices" \notin DOMAIN resp.doc THEN Raise("KeyError")
        ELSE IF Len(resp.doc.choices) = 0 THEN Raise("IndexError")
        ELSE IF "message" \notin DOMAIN resp.doc.choices[1] THEN Raise("KeyError")
        ELSE IF "content" \notin DOMAIN resp.doc.choices[1].message THEN Raise("KeyError")
        ELSE Return(resp.doc.choices[1].message.content)
    ELSE
        Return(Str(<<"Request failed with status code ">>
                   \o format_int(resp.status_code)))

\* The same try block of select_best_output_with_command_r.
select_response(resp) ==
    IF resp.kind = "exception" THEN
        Return(Str(<<"Request failed due to an exception: ">> \o resp.msg))
    ELSE IF resp.status_code = HTTP_OK THEN
        IF ~resp.parses THEN
            IF json_error_is_request_exception
            THEN Return(Str(<<"Request failed due to an exception: ">> \o JSON_ERROR_TEXT))
            ELSE Raise("JSONDecodeError")
        ELSE IF "choices" \notin DOMAIN resp.doc THEN Raise("KeyError")
        ELSE IF Len(resp.doc.choices) = 0 THEN Raise("IndexError")
        ELSE IF "message" \notin DOMAIN resp.doc.choices[1] THEN Raise("KeyError")
        ELSE IF "content" \notin DOMAIN resp.doc.choices[1].message THEN Raise("KeyError")
        ELSE Return(resp.doc.choices[1].message.content)
    ELSE
        Return(Str(<<"Request failed with status code ">>
                   \o format_int(resp.status_code) \o <<": ">> \o resp.text))

\* ------------------------------------------------------------ invocations

\* One invocation: its function and arguments, what open() found at the
\* image path, the requests it has sent, and how it stands: "waiting" (blocked in
\* requests.post), "returned" (with result) or "raised" (with exc).
NoFrame ==
    [fn |-> "none", path |-> "", model_name |-> "", instr |-> <<>>, outs |-> <<>>,
     file |-> [exists |-> FALSE, bytes |-> <<>>], posts |-> <<>>, status |-> "none",
     resp |-> NoResponse,
     result |-> None, exc |-> ""]

\* requests.post(...) is called with req: one more outbound request.
post(posts, req) == Append(posts, req)

\* Mutant: a missing file is read as an empty image and the request goes out.
describe_enter_ignores_missing(path, model_name, instr) ==
    [NoFrame EXCEPT
        !.fn = "describe", !.path = path, !.model_name = model_name,
        !.instr = instr, !.file = disk[path],
        !.posts = post(<<>>, post_request(describe_payload(
                      model_name, instr, image_content(disk[path].bytes)))),
        !.status = "waiting"]

\* describe_image_with_model(path, model_name, instr) up to the point where
\* it blocks in requests.post: open() raises when the file is missing, before
\* anything is built or sent.
describe_enter(path, model_name, instr) ==
    LET called == [NoFrame EXCEPT !.fn = "describe", !.path = path,
                                  !.model_name = model_name, !.instr = instr,
                                  !.file = disk[path]]
    IN  IF ~disk[path].exists
        THEN [called EXCEPT !.status = "raised", !.exc = "FileNotFoundError"]
        ELSE [called EXCEPT
                !.posts = post(<<>>, post_request(describe_payload(
                              model_name, instr, image_content(disk[path].bytes)))),
                !.status = "waiting"]

\* Mutant: a request that ended in a transport exception is sent again.
describe_leave_retry(fr, resp) ==
    LET o == describe_response(resp)
    IN  IF resp.kind = "exception"
        THEN [fr EXCEPT !.posts = post(fr.posts, fr.posts[1])]
        ELSE [fr EXCEPT !.resp = resp,
                        !.status = IF o.kind = "return" THEN "returned" ELSE "raised",
                        !.result = o.value,
                        !.exc = o.exc]

\* describe_image_with_model from the end of requests.post to its own end.
describe_leave(fr, resp) ==
    LET o == describe_response(resp)
    IN  [fr EXCEPT !.resp = resp,
                   !.status = IF o.kind = "return" THEN "returned" ELSE "raised",
                   !.result = o.value,
                   !.exc = o.exc]

\* select_best_output_with_command_r(outs) up to the point where it blocks
\* in requests.post.
select_enter(outs) ==
    [NoFrame EXCEPT !.fn = "select", !.outs = outs,
                    !.posts = post(<<>>, post_request(select_payload(outs))),
                    !.status = "waiting"]

\* select_best_output_with_command_r from the end of requests.post on.
select_leave(fr, resp) ==
    LET o == select_response(resp)
    IN  [fr EXCEPT !.resp = resp,
                   !.status = IF o.kind = "return" THEN "returned" ELSE "raised",
                   !.result = o.value,
                   !.exc = o.exc]

\* ------------------------------------------------------------- the driver

instruction == <<"Extract the following information from this receipt: ...">>

image_path == "data/receipt4.jpeg"

models ==
    << [name |-> "mistralai/pixtral-12b", description |-> "PixTral 12B"],
       [name |-> "qwen/qwen-2-vl-7b-instruct", description |-> "Qwen-2V"],
       [name |-> "meta-llama/llama-3.2-11b-vision-instruct:free",
        description |-> "LLaMA-3.2"] >>

\* ---------------------------------------------------------- the environment

MISSING_PATH == "data/missing.jpeg"

Paths == {image_path, MISSING_PATH}

Missing == [exists |-> FALSE, bytes |-> <<>>]

File(bytes) == [exists |-> TRUE, bytes |-> bytes]

\* Contents the receipt image may have (two and four bytes: a full group of
\* base64 and both of its paddings).
ImageFiles == { <<255, 216>>, <<255, 216, 255, 224>> }

InitEnv ==
    /\ disk \in {d \in [Paths -> {Missing} \cup {File(b) : b \in ImageFiles}] :
                    d[MISSING_PATH] = Missing}
    /\ json_error_is_request_exception \in BOOLEAN

\* Between two invocations the image file is written, replaced or removed.
FileChanges ==
    /\ pc \in {"loop", "idle"}
    /\ \E f \in {Missing} \cup {File(b) : b \in ImageFiles} :
         /\ f # disk[image_path]
         /\ disk' = [disk EXCEPT ![image_path] = f]
    /\ UNCHANGED <<json_error_is_request_exception, pc, frame, prev, model_index, outputs,
                   best_output, trace>>

\* An event of the driver's run: an invocation begins ("call") or ends.
CallEvent(fr) ==
    [ev |-> "call", fn |-> fr.fn, model_name |-> fr.model_name, outs |-> fr.outs,
     status |-> "", resp |-> NoResponse, result |-> None]

EndEvent(fr) ==
    [ev |-> "end", fn |-> fr.fn, model_name |-> fr.model_name, outs |-> fr.outs,
     status |-> fr.status, resp |-> fr.resp, result |-> fr.result]

Init ==
    /\ InitEnv
    /\ pc = "loop"
    /\ frame = NoFrame
    /\ prev = NoFrame
    /\ model_index = 1
    /\ outputs = <<>>
    /\ best_output = None      \* not yet assigned
    /\ trace = <<>>

\* for model in models: output = describe_image_with_model(image_path,
\* model['name'], instruction), up to the point where the call blocks in
\* requests.post; a call that raises ends the script.
DriverExtract ==
    /\ pc = "loop"
    /\ model_index <= Len(models)
    /\ LET fr == describe_enter(image_path, models[model_index].name, instruction)
       IN  /\ frame' = fr
           /\ IF fr.status = "raised"
              THEN /\ trace' = trace \o <<CallEvent(fr), EndEvent(fr)>>
                   /\ pc' = "raised"
              ELSE /\ trace' = Append(trace, CallEvent(fr))
                   /\ pc' = "extract"
    /\ UNCHANGED <<disk, json_error_is_request_exception, prev, model_index, outputs,
                   best_output>>

\* The provider answers; the call ends; outputs.append(output) and the loop
\* goes on to the next model.
DriverExtractReturn ==
    /\ pc = "extract"
    /\ \E resp \in Responses :
         LET fr == describe_leave(frame, resp)
         IN  /\ frame' = fr
             /\ IF fr.status = "returned"
                THEN /\ outputs' = Append(outputs, fr.result)
                     /\ model_index' = model_index + 1
                     /\ pc' = "loop"
                     /\ trace' = Append(trace, EndEvent(fr))
                ELSE IF fr.status = "raised"
                THEN /\ pc' = "raised"
                     /\ trace' = Append(trace, EndEvent(fr))
                     /\ UNCHANGED <<outputs, model_index>>
                ELSE UNCHANGED <<pc, trace, outputs, model_index>>
    /\ UNCHANGED <<disk, json_error_is_request_exception, prev, best_output>>

\* Mutant: the Selector call is indented into the loop body.
DriverSelect_in_loop ==
    /\ pc = "loop"
    /\ model_index > 1
    /\ frame' = select_enter(outputs)
    /\ trace' = Append(trace, CallEvent(frame'))
    /\ pc' = "select"
    /\ UNCHANGED <<disk, json_error_is_request_exception, prev, model_index, outputs,
                   best_output>>

\* After the loop: best_output = select_best_output_with_command_r(outputs),
\* up to the point where the call blocks in requests.post.
DriverSelect ==
    /\ pc = "loop"
    /\ model_index > Len(models)
    /\ frame' = select_enter(outputs)
    /\ trace' = Append(trace, CallEvent(frame'))
    /\ pc' = "select"
    /\ UNCHANGED <<disk, json_error_is_request_exception, prev, model_index, outputs,
                   best_output>>

\* The judge answers; the call ends; best_output is assigned and printed.
DriverSelectReturn ==
    /\ pc = "select"
    /\ \E resp \in Responses :
         LET fr == select_leave(frame, resp)
         IN  /\ frame' = fr
             /\ IF fr.status = "returned"
                THEN /\ best_output' = fr.result
                     /\ pc' = "done"
                     /\ trace' = Append(trace, EndEvent(fr))
                ELSE IF fr.status = "raised"
                THEN /\ pc' = "raised"
                     /\ trace' = Append(trace, EndEvent(fr))
                     /\ UNCHANGED best_output
                ELSE UNCHANGED <<pc, trace, best_output>>
    /\ UNCHANGED <<disk, json_error_is_request_exception, prev, model_index, outputs>>

Next ==
    \/ DriverExtract
    \/ DriverExtractReturn
    \/ DriverSelect
    \/ DriverSelectReturn
    \/ FileChanges

\* The script as run: the module-level driver.
Spec == Init /\ [][Next]_vars

\* ------------------------------------------------------------ direct calls

\* The two functions called directly, one call after another, by a caller
\* that survives what they raise.
ModelNames == {models[1].name, models[2].name}

Instructions == {instruction, <<"Describe this image.">>}

\* The text the Extractor returns for a 500 response with body "error".
FailureText ==
    <<"Request failed with status code ", "5", "0", "0", ": ", "error">>

Candidates == {Str(TableA), Str(TableB), Str(FailureText)}

CandidateSeqs == UNION {[1..n -> Candidates] : n \in 0..MaxCandidates}

InitCalls ==
    /\ InitEnv
    /\ pc = "idle"
    /\ frame = NoFrame
    /\ prev = NoFrame
    /\ model_index = 1
    /\ outputs = <<>>
    /\ best_output = None
    /\ trace = <<>>

CallDescribe ==
    /\ pc = "idle"
    /\ \E path \in Paths, model_name \in ModelNames, instr \in Instructions :
         /\ frame' = describe_enter(path, model_name, instr)
         /\ pc' = IF frame'.status = "waiting" THEN "extract" ELSE "idle"
    /\ prev' = IF frame.fn = "describe" THEN frame ELSE NoFrame
    /\ UNCHANGED <<disk, json_error_is_request_exception, model_index, outputs,
                   best_output, trace>>

DescribeReturn ==
    /\ pc = "extract"
    /\ \E resp \in Responses :
         /\ frame' = describe_leave(frame, resp)
         /\ pc' = IF frame'.status = "waiting" THEN "extract" ELSE "idle"
    /\ UNCHANGED <<disk, json_error_is_request_exception, prev, model_index, outputs,
                   best_output, trace>>

CallSelect ==
    /\ pc = "idle"
    /\ \E outs \in CandidateSeqs :
         /\ frame' = select_enter(outs)
         /\ pc' = IF frame'.status = "waiting" THEN "select" ELSE "idle"
    /\ prev' = NoFrame
    /\ UNCHANGED <<disk, json_error_is_request_exception, model_index, outputs,
                   best_output, trace>>

SelectReturn ==
    /\ pc = "select"
    /\ \E resp \in Responses :
         /\ frame' = select_leave(frame, resp)
         /\ pc' = IF frame'.status = "waiting" THEN "select" ELSE "idle"
    /\ UNCHANGED <<disk, json_error_is_request_exception, prev, model_index, outputs,
                   best_output, trace>>

NextCalls ==
    \/ CallDescribe
    \/ DescribeReturn
    \/ CallSelect
    \/ SelectReturn
    \/ FileChanges

SpecCalls == InitCalls /\ [][NextCalls]_vars

\* ------------------------------------------------------------------ claims

\* The invocation in frame has ended (it returned or raised).
Ended(fr) == fr.status \in {"returned", "raised"}

\* resp is a success-status response whose body has a first choice carrying
\* a message text.
HasFirstChoiceText(resp) ==
    /\ resp.kind = "http"
    /\ resp.status_code = 200
    /\ resp.parses
    /\ "choices" \in DOMAIN resp.doc
    /\ Len(resp.doc.choices) >= 1
    /\ "message" \in DOMAIN resp.doc.choices[1]
    /\ "content" \in DOMAIN resp.doc.choices[1].message
    /\ resp.doc.choices[1].message.content.type = "str"

\* resp is a response whose status is not the success status.
IsFailureStatus(resp) == resp.kind = "http" /\ resp.status_code # 200

\* C1: when the provider answers an invocation of either function with
\* status 200 and a first choice carrying a message text, the invocation
\* returns exactly that text, unmodified.
C1_PassThrough ==
    (Ended(frame) /\ HasFirstChoiceText(frame.resp))
        => /\ frame.status = "returned"
           /\ frame.result = frame.resp.doc.choices[1].message.content

\* Witness of C1: the judge answered 200 with two choices and the Selector
\* returned the text of the first.
C1_Witness ==
    /\ frame.fn = "select"
    /\ frame.status = "returned"
    /\ HasFirstChoiceText(frame.resp)
    /\ Len(frame.resp.doc.choices) = 2
    /\ frame.result = Str(TableB)

\* C2: when the provider answers an invocation of either function with a
\* status other than 200, the invocation returns (it does not raise) a str
\* that contains the decimal status code and the response body.
C2_FailureStatusText ==
    (Ended(frame) /\ IsFailureStatus(frame.resp))
        => /\ frame.status = "returned"
           /\ frame.result.type = "str"
           /\ Contains(frame.result.s, format_int(frame.resp.status_code))
           /\ Contains(frame.result.s, frame.resp.text)

\* Witness of C2: the Extractor returned the text of a 500 response with
\* body "error".
C2_Witness ==
    /\ frame.fn = "describe"
    /\ frame.status = "returned"
    /\ frame.resp.status_code = 500
    /\ frame.resp.text = <<"error">>
    /\ frame.result = Str(FailureText)

\* C3: no invocation of either function makes more than one outbound
\* request, whatever the request ends in; when it ends in a transport
\* exception the invocation returns a str embedding the exception message,
\* having made that one request.
C3_OneCallNoRetry ==
    /\ Len(frame.posts) <= 1
    /\ (frame.resp.kind = "exception")
         => /\ frame.status = "returned"
            /\ frame.result.type = "str"
            /\ Contains(frame.result.s, frame.resp.msg)
            /\ Len(frame.posts) = 1

\* Witness of C3: an Extractor invocation whose request ended in a transport
\* exception has returned.
C3_Witness ==
    /\ frame.fn = "describe"
    /\ frame.resp.kind = "exception"
    /\ frame.status = "returned"
    /\ Len(frame.posts) = 1

\* The label the judge instruction gives candidate number n, then the candidate.
LabelledOption(n, output) ==
    <<"Option ">> \o format_int(n) \o <<":\n">> \o output.s

RECURSIVE OptionsInOrder(_, _, _, _)
\* From position p on, text shows candidates n, n+1, ... of outs, each under
\* its own label, one after the other.
OptionsInOrder(text, outs, n, p) ==
    IF n > Len(outs) THEN TRUE
    ELSE LET q == FindFrom(text, LabelledOption(n, outs[n]), p)
         IN  /\ q # 0
             /\ OptionsInOrder(text, outs, n + 1,
                               q + Len(LabelledOption(n, outs[n])))

\* The instruction the judge was sent by the invocation in fr.
SentInstruction(fr) == fr.posts[1].data.json.messages[1].content

\* C4: the instruction a Selector invocation sends the judge shows every
\* candidate, the Nth under the label "Option N", in input order, and shows
\* as many options as there are candidates: none is dropped, reordered or
\* filtered, failure texts included.
C4_OptionsLabelledInOrder ==
    (frame.fn = "select")
        => /\ Len(frame.posts) = 1
           /\ OptionsInOrder(SentInstruction(frame), frame.outs, 1, 1)
           /\ Cardinality({p \in 1..Len(SentInstruction(frame)) :
                              SentInstruction(frame)[p] = "Option "})
                = Len(frame.outs)

\* Witness of C4: the Selector was given a failure text in second position
\* and the judge is shown it as "Option 2".
C4_Witness ==
    /\ frame.fn = "select"
    /\ frame.outs = <<Str(TableA), Str(FailureText)>>
    /\ Contains(SentInstruction(frame), <<"Option ", "2", ":\n">> \o FailureText)

\* C5: a Selector invocation given an empty candidate sequence makes no
\* outbound judge request.
C5_NoJudgeCallOnEmpty ==
    (frame.fn = "select" /\ Len(frame.outs) = 0) => frame.posts = <<>>

\* C6: an Extractor invocation whose image path names no existing file has
\* raised FileNotFoundError and has made no outbound request.
C6_MissingFileNoRequest ==
    (frame.fn = "describe" /\ ~frame.file.exists)
        => /\ frame.status = "raised"
           /\ frame.exc = "FileNotFoundError"
           /\ frame.posts = <<>>

\* Witness of C6: the Extractor was called on the receipt image after the
\* file had been removed, and has raised.
C6_Witness ==
    /\ frame.fn = "describe"
    /\ frame.path = image_path
    /\ ~frame.file.exists
    /\ prev.fn = "describe"
    /\ prev.path = image_path
    /\ prev.file.exists
    /\ frame.status = "raised"

\* C9: whatever the provider call of an invocation ends in, the invocation
\* returns a str and raises nothing.
C9_NeverRaises ==
    (Ended(frame) /\ frame.resp.kind # "none")
        => /\ frame.status = "returned"
           /\ frame.result.type = "str"

Slot(k) == (k + 1) \div 2

IsFailedExtraction(e) ==
    /\ e.ev = "end"
    /\ e.fn = "describe"
    /\ (e.resp.kind = "exception" \/ IsFailureStatus(e.resp))

\* C8: an Extractor call that fails (non-success status or transport
\* exception) returns its failure text to the driver, which stores it at that
\* provider's position and goes on to the next call; the Selector is given
\* the failure text at that position and shows it to the judge under that
\* position's label.
C8_FailureDoesNotHalt ==
    \A k \in 1..Len(trace) :
        IsFailedExtraction(trace[k])
          => /\ trace[k].status = "returned"
             /\ trace[k].result.type = "str"
             /\ Len(outputs) >= Slot(k)
             /\ outputs[Slot(k)] = trace[k].result
             /\ (k = Len(trace))
                  => /\ pc = "loop"
                     /\ model_index = Slot(k) + 1
                     /\ ENABLED (DriverExtract \/ DriverSelect)
             /\ (frame.fn = "select")
                  => /\ frame.outs[Slot(k)] = trace[k].result
                     /\ Contains(SentInstruction(frame),
                                 LabelledOption(Slot(k), trace[k].result))

\* Witness of C8: the second provider failed with status 500, the third was
\* still called, and the Selector ran with the failure text as candidate 2.
C8_Witness ==
    /\ pc = "done"
    /\ Len(trace) = 8
    /\ trace[4].resp.status_code = 500
    /\ trace[4].resp.text = <<"error">>
    /\ trace[6].status = "returned"
    /\ trace[7].outs[2] = Str(FailureText)
    /\ Contains(SentInstruction(frame), <<"Option ", "2", ":\n">> \o FailureText)

====
